---- MODULE Spec2Model ----
(***************************************************************************)
(* GCP project health agent: health_agent.py (metric and inventory         *)
(* helpers), main.py (command-line report) and app.py (web form).          *)
(*                                                                         *)
(* A double d >= 0 is modelled by the integer d * 10^5; the not-a-number   *)
(* value float("nan") by NaN.  A resource path "a/b/c" is modelled by the   *)
(* sequence of its segments <<"a","b","c">>, the empty string by <<>>.     *)
(* The dicts fetch returns are sequences of [key, val] records in          *)
(* insertion order; name_map, which is only looked up, is a function on    *)
(* the set of its keys.  The services are stateless collaborators: every   *)
(* response is drawn afresh from the responses they may give.              *)
(***************************************************************************)
EXTENDS Integers, Sequences, FiniteSets

VARIABLES
    a_pc, a_fn, a_requests, a_series, a_ret,
    l_pc, l_req, l_result, l_ret, l_served, l_requested,
    b_pc, cpu, mem, name_map, b_req, rows, row_keys, b_served,
    m_pc, m_args, m_idx, r_pc, cpu_avg, mem_avg, vm_count, calls, failed,
    summary, invoked,
    w_pc, w_method, w_form, w_cpu_avg, w_mem_avg, w_vm_count, w_per_instance,
    w_queries, w_result

a_vars == <<a_pc, a_fn, a_requests, a_series, a_ret>>
l_vars == <<l_pc, l_req, l_result, l_ret, l_served, l_requested>>
b_vars == <<b_pc, cpu, mem, name_map, b_req, rows, row_keys, b_served>>
m_vars == <<m_pc, m_args, m_idx, r_pc, cpu_avg, mem_avg, vm_count, calls, failed,
            summary, invoked>>
w_vars == <<w_pc, w_method, w_form, w_cpu_avg, w_mem_avg, w_vm_count, w_per_instance,
            w_queries, w_result>>
vars == <<a_vars, l_vars, b_vars, m_vars, w_vars>>

----------------------------------------------------------------------------
(* Bounds of the model. *)

\* series returned to one project-wide query
MaxSeries == 3
\* points of one series
MaxPoints == 2
\* pages of one aggregated instance listing (list_running_vms)
MaxPages == 3
\* pages of the listing read by get_per_instance_breakdown
MaxJoinPages == 1

----------------------------------------------------------------------------
(* Values *)

\* float("nan"): no double the service returns is negative
NaN == -1
\* a request that is None (no further page)
None == 0

ALIGN_SECONDS == 600

CPU_METRIC == "compute.googleapis.com/instance/cpu/utilization"
MEM_METRIC == "agent.googleapis.com/memory/percent_used"

\* doubles the metrics service may return (d * 10^5): 0.4567, 0.12345 for the
\* CPU fraction; 63.125 for the memory percentage
CpuValues == {45670, 12345}
MemValues == {6312500}

\* round(x, 2) in hundredths, for x >= 0 in units of 10^-5: round half to even
Round2(x) ==
    IF x = NaN THEN NaN
    ELSE LET q == x \div 1000
             r == x % 1000
         IN  IF 2 * r < 1000 THEN q
             ELSE IF 2 * r > 1000 THEN q + 1
             ELSE IF q % 2 = 0 THEN q ELSE q + 1

\* s.split("/")[-1]
LastSegment(path) == IF Len(path) = 0 THEN "" ELSE path[Len(path)]

----------------------------------------------------------------------------
(* health_agent.py: project-wide averages *)

\* the request _ts_request_common builds
ts_request_common(project_id, metric_type) ==
    [name |-> <<"projects", project_id>>,
     metric_type |-> metric_type,
     resource_type |-> "gce_instance",
     window |-> ALIGN_SECONDS,
     alignment_period |-> ALIGN_SECONDS,
     per_series_aligner |-> "ALIGN_MEAN",
     cross_series_reducer |-> "REDUCE_MEAN"]

\* for ts in series: if ts.points: return ts.points[0] ... return nan
RECURSIVE first_point_scan(_, _)
first_point_scan(series, i) ==
    IF i > Len(series) THEN NaN
    ELSE IF Len(series[i]) > 0 THEN series[i][1]
    ELSE first_point_scan(series, i + 1)

\* a scan that keeps the last series' first point
RECURSIVE last_point_scan(_, _)
last_point_scan(series, i) ==
    IF i > Len(series) THEN NaN
    ELSE LET rest == last_point_scan(series, i + 1)
         IN  IF rest # NaN THEN rest
             ELSE IF Len(series[i]) > 0 THEN series[i][1] ELSE NaN

average_last_series(series) == last_point_scan(series, 1)

average_of(series) ==
    IF Len(series) = 0 THEN NaN ELSE first_point_scan(series, 1)

get_project_cpu_avg(series) == average_of(series)

get_project_mem_avg(series) == average_of(series)

\* the point sequences and the responses the metrics service may return
RECURSIVE SeqsUpTo(_, _)
SeqsUpTo(S, n) ==
    IF n = 0 THEN {<<>>}
    ELSE LET shorter == SeqsUpTo(S, n - 1)
         IN  shorter \cup {Append(s, x) : s \in {t \in shorter : Len(t) = n - 1}, x \in S}

PointSeqs(values) == SeqsUpTo(values, MaxPoints)
SeriesResponses(values) == SeqsUpTo(PointSeqs(values), MaxSeries)

PROJECTS ==
    <<"km-prod", "km-prod-cn-443607", "km-prod-eu", "km-prod-in", "km-prod-us",
      "km-dev-434106">>

ProjectIds == {PROJECTS[i] : i \in 1..Len(PROJECTS)}

a_Init ==
    /\ a_pc = "idle"
    /\ a_fn = "none"
    /\ a_requests = <<>>
    /\ a_series = <<>>
    /\ a_ret = NaN

\* one call of get_project_cpu_avg: one request, the series listed, the scan
CallCpuAvg ==
    /\ a_pc = "idle"
    /\ \E project_id \in ProjectIds, series \in SeriesResponses(CpuValues) :
          /\ a_requests' = <<ts_request_common(project_id, CPU_METRIC)>>
          /\ a_series' = series
          /\ a_ret' = get_project_cpu_avg(series)
    /\ a_fn' = "get_project_cpu_avg"
    /\ a_pc' = "returned"
    /\ UNCHANGED <<l_vars, b_vars, m_vars, w_vars>>

\* one call of get_project_mem_avg
CallMemAvg ==
    /\ a_pc = "idle"
    /\ \E project_id \in ProjectIds, series \in SeriesResponses(MemValues) :
          /\ a_requests' = <<ts_request_common(project_id, MEM_METRIC)>>
          /\ a_series' = series
          /\ a_ret' = get_project_mem_avg(series)
    /\ a_fn' = "get_project_mem_avg"
    /\ a_pc' = "returned"
    /\ UNCHANGED <<l_vars, b_vars, m_vars, w_vars>>

\* the call is over; nothing is kept between calls
AvgDone ==
    /\ a_pc = "returned"
    /\ a_pc' = "idle"
    /\ a_fn' = "none"
    /\ a_requests' = <<>>
    /\ a_series' = <<>>
    /\ a_ret' = NaN
    /\ UNCHANGED <<l_vars, b_vars, m_vars, w_vars>>

----------------------------------------------------------------------------
(* health_agent.py: list_running_vms *)

InstIds == {"1", "2"}
Statuses == {"RUNNING", "TERMINATED"}

\* the zone each instance lives in, and the instance the inventory holds
ZoneOf(id) == IF id = "1" THEN "za" ELSE "zb"
Instance(id, status) ==
    [id |-> id,
     name |-> IF id = "1" THEN "web-1" ELSE "db-2",
     zone |-> <<"projects", "p", "zones", ZoneOf(id)>>,
     machineType |-> <<"projects", "p", "zones", ZoneOf(id), "machineTypes", "e2-medium">>,
     status |-> status]

\* what one zone's entry of "items" may hold for the instance of that zone
ZoneInstances(id) == {<<>>} \cup {<<Instance(id, st)>> : st \in Statuses}

\* resp["items"]: one entry per zone, in the order the service lists them
PageItems ==
    {<<[scope |-> "zones/za", instances |-> i1], [scope |-> "zones/zb", instances |-> i2]>> :
        i1 \in ZoneInstances("1"), i2 \in ZoneInstances("2")}

\* the instances of a response in the order the two loops visit them
RECURSIVE InstancesFrom(_, _)
InstancesFrom(items, k) ==
    IF k > Len(items) THEN <<>>
    ELSE items[k].instances \o InstancesFrom(items, k + 1)

Instances(resp) == InstancesFrom(resp.items, 1)

vm_record(inst) ==
    [name |-> inst.name,
     zone |-> LastSegment(inst.zone),
     machineType |-> LastSegment(inst.machineType),
     id |-> inst.id]

RECURSIVE MapSeq(_, _)
MapSeq(s, k) == IF k > Len(s) THEN <<>> ELSE <<vm_record(s[k])>> \o MapSeq(s, k + 1)

IsRunning(inst) == inst.status = "RUNNING"

\* a loop body that appends every instance, whatever its status
list_page_any_status(result, resp) == result \o MapSeq(Instances(resp), 1)

\* the body of the while loop: the RUNNING instances of one response, appended
list_page(result, resp) ==
    result \o MapSeq(SelectSeq(Instances(resp), IsRunning), 1)

\* aggregatedList_next: None without a continuation token
aggregatedList_next(previous_request, previous_response) ==
    IF previous_response.nextPageToken = 0 THEN None
    ELSE previous_response.nextPageToken

\* the responses the inventory service may give to the request for page p of
\* at most maxp: a continuation token on every page but the last
PageResponses(p, maxp) ==
    {[items |-> it, nextPageToken |-> t] :
        it \in PageItems, t \in {0} \cup (IF p < maxp THEN {p + 1} ELSE {})}

l_Init ==
    /\ l_pc = "idle"
    /\ l_req = None
    /\ l_result = <<>>
    /\ l_ret = <<0, <<>>>>
    /\ l_served = <<>>
    /\ l_requested = <<>>

\* compute.instances().aggregatedList(project=project_id); result = []
ListCall ==
    /\ l_pc = "idle"
    /\ l_pc' = "loop"
    /\ l_req' = 1
    /\ l_result' = <<>>
    /\ UNCHANGED <<l_ret, l_served, l_requested>>
    /\ UNCHANGED <<a_vars, b_vars, m_vars, w_vars>>

\* one iteration of the while loop
ListExecute ==
    /\ l_pc = "loop"
    /\ l_req # None
    /\ \E resp \in PageResponses(l_req, MaxPages) :
          /\ l_result' = list_page(l_result, resp)
          /\ l_req' = aggregatedList_next(l_req, resp)
          /\ l_served' = Append(l_served, resp)
    /\ l_requested' = Append(l_requested, l_req)
    /\ UNCHANGED <<l_pc, l_ret>>
    /\ UNCHANGED <<a_vars, b_vars, m_vars, w_vars>>

\* return len(result), result
ListReturn ==
    /\ l_pc = "loop"
    /\ l_req = None
    /\ l_ret' = <<Len(l_result), l_result>>
    /\ l_pc' = "returned"
    /\ UNCHANGED <<l_req, l_result, l_served, l_requested>>
    /\ UNCHANGED <<a_vars, b_vars, m_vars, w_vars>>

\* the call is over; nothing is kept between calls
ListDone ==
    /\ l_pc = "returned"
    /\ l_pc' = "idle"
    /\ l_req' = None
    /\ l_result' = <<>>
    /\ l_ret' = <<0, <<>>>>
    /\ l_served' = <<>>
    /\ l_requested' = <<>>
    /\ UNCHANGED <<a_vars, b_vars, m_vars, w_vars>>

----------------------------------------------------------------------------
(* health_agent.py: get_per_instance_breakdown *)

\* the labels and values of the per-instance series the metrics service returns
ZoneLabels == {"za", "zb"}
JoinCpuValues == {45670}
JoinMemValues == {6312500}

TimeSeries(values) ==
    [labels : [instance_id : InstIds, zone : ZoneLabels], points : PointSeqs(values)]

\* dict operations on a sequence of [key, val] in insertion order
DictHas(d, k) == \E i \in 1..Len(d) : d[i].key = k
DictGet(d, k, default) ==
    IF DictHas(d, k) THEN d[CHOOSE i \in 1..Len(d) : d[i].key = k].val ELSE default
DictSet(d, k, v) ==
    IF DictHas(d, k)
    THEN [i \in 1..Len(d) |-> IF d[i].key = k THEN [key |-> k, val |-> v] ELSE d[i]]
    ELSE Append(d, [key |-> k, val |-> v])
DictKeys(d) == {d[i].key : i \in 1..Len(d)}

\* a fetch that keeps one entry per series, not per key
fetch_ts_append(vals, ts) ==
    LET key == <<ts.labels.instance_id, ts.labels.zone>>
    IN  IF Len(ts.points) > 0
        THEN Append(vals, [key |-> key, val |-> ts.points[1]])
        ELSE vals

\* the body of fetch's loop: vals[(inst, zone)] = first point, if any
fetch_ts(vals, ts) ==
    LET key == <<ts.labels.instance_id, ts.labels.zone>>
    IN  IF Len(ts.points) > 0 THEN DictSet(vals, key, ts.points[1]) ELSE vals

\* name_map[inst.get("id")] = {...} for the instances from position k on
RECURSIVE name_map_from(_, _, _)
name_map_from(nm, insts, k) ==
    IF k > Len(insts) THEN nm
    ELSE LET inst == insts[k]
             meta == [name |-> inst.name,
                      zone |-> LastSegment(inst.zone),
                      machineType |-> LastSegment(inst.machineType)]
         IN  name_map_from(
                 [id \in DOMAIN nm \cup {inst.id} |-> IF id = inst.id THEN meta ELSE nm[id]],
                 insts, k + 1)

\* the body of the joiner's while loop: every instance of the response
name_map_page(nm, resp) == name_map_from(nm, Instances(resp), 1)

\* name_map.get(inst_id): <<meta>>, or <<>> for None
meta_lookup(nm, inst_id) ==
    IF inst_id \in DOMAIN nm THEN <<nm[inst_id]>> ELSE <<>>

\* a row that shows the zone label of the series
row_of_label_zone(meta, key, cpu_val, mem_vals) ==
    [instance |-> meta.name,
     zone |-> key[2],
     machineType |-> meta.machineType,
     cpu_utilization_pct |-> Round2(cpu_val * 100),
     memory_used_pct |-> Round2(DictGet(mem_vals, key, NaN))]

\* the row of one CPU entry
row_of(meta, key, cpu_val, mem_vals) ==
    [instance |-> meta.name,
     zone |-> meta.zone,
     machineType |-> meta.machineType,
     cpu_utilization_pct |-> Round2(cpu_val * 100),
     memory_used_pct |-> Round2(DictGet(mem_vals, key, NaN))]

\* the entries of a map, from position k on, whose id has a VM record
RECURSIVE kept_from(_, _, _)
kept_from(vals, nm, k) ==
    IF k > Len(vals) THEN <<>>
    ELSE (IF meta_lookup(nm, vals[k].key[1]) = <<>> THEN <<>> ELSE <<vals[k]>>)
         \o kept_from(vals, nm, k + 1)

\* a join that walks the memory map
join_over_mem(cpu_vals, mem_vals, nm) ==
    LET kept == kept_from(mem_vals, nm, 1)
    IN  [i \in 1..Len(kept) |->
            [key |-> kept[i].key,
             row |-> row_of(meta_lookup(nm, kept[i].key[1])[1], kept[i].key,
                            DictGet(cpu_vals, kept[i].key, 0), mem_vals)]]

\* for (inst_id, zone), cpu_val in cpu.items(): meta = name_map.get(inst_id);
\* if not meta: continue; rows.append({...}).  Each row with the key it comes from.
join(cpu_vals, mem_vals, nm) ==
    LET kept == kept_from(cpu_vals, nm, 1)
    IN  [i \in 1..Len(kept) |->
            [key |-> kept[i].key,
             row |-> row_of(meta_lookup(nm, kept[i].key[1])[1], kept[i].key,
                            kept[i].val, mem_vals)]]

EmptyMap == [id \in {} |-> <<>>]

b_Init ==
    /\ b_pc = "idle"
    /\ cpu = <<>>
    /\ mem = <<>>
    /\ name_map = EmptyMap
    /\ b_req = None
    /\ rows = <<>>
    /\ row_keys = <<>>
    /\ b_served = <<>>

\* the call starts: cpu = fetch(...) begins with vals = {}
BreakdownCall ==
    /\ b_pc = "idle"
    /\ b_pc' = "cpu"
    /\ UNCHANGED <<cpu, mem, name_map, b_req, rows, row_keys, b_served>>
    /\ UNCHANGED <<a_vars, l_vars, m_vars, w_vars>>

\* one series of the CPU listing
FetchCpuTs ==
    /\ b_pc = "cpu"
    /\ \E ts \in TimeSeries(JoinCpuValues) : cpu' = fetch_ts(cpu, ts)
    /\ UNCHANGED <<b_pc, mem, name_map, b_req, rows, row_keys, b_served>>
    /\ UNCHANGED <<a_vars, l_vars, m_vars, w_vars>>

\* the CPU listing is exhausted: mem = fetch(...) begins
FetchCpuEnd ==
    /\ b_pc = "cpu"
    /\ b_pc' = "mem"
    /\ UNCHANGED <<cpu, mem, name_map, b_req, rows, row_keys, b_served>>
    /\ UNCHANGED <<a_vars, l_vars, m_vars, w_vars>>

\* one series of the memory listing
FetchMemTs ==
    /\ b_pc = "mem"
    /\ \E ts \in TimeSeries(JoinMemValues) : mem' = fetch_ts(mem, ts)
    /\ UNCHANGED <<b_pc, cpu, name_map, b_req, rows, row_keys, b_served>>
    /\ UNCHANGED <<a_vars, l_vars, m_vars, w_vars>>

\* the memory listing is exhausted: name_map = {}, the first page is requested
FetchMemEnd ==
    /\ b_pc = "mem"
    /\ b_pc' = "inv"
    /\ name_map' = EmptyMap
    /\ b_req' = 1
    /\ UNCHANGED <<cpu, mem, rows, row_keys, b_served>>
    /\ UNCHANGED <<a_vars, l_vars, m_vars, w_vars>>

\* one iteration of the joiner's while loop
JoinExecute ==
    /\ b_pc = "inv"
    /\ b_req # None
    /\ \E resp \in PageResponses(b_req, MaxJoinPages) :
          /\ name_map' = name_map_page(name_map, resp)
          /\ b_req' = aggregatedList_next(b_req, resp)
          /\ b_served' = Append(b_served, resp)
    /\ UNCHANGED <<b_pc, cpu, mem, rows, row_keys>>
    /\ UNCHANGED <<a_vars, l_vars, m_vars, w_vars>>

\* the join and the return
BreakdownReturn ==
    /\ b_pc = "inv"
    /\ b_req = None
    /\ LET joined == join(cpu, mem, name_map)
       IN  /\ rows' = [i \in 1..Len(joined) |-> joined[i].row]
           /\ row_keys' = [i \in 1..Len(joined) |-> joined[i].key]
    /\ b_pc' = "returned"
    /\ UNCHANGED <<cpu, mem, name_map, b_req, b_served>>
    /\ UNCHANGED <<a_vars, l_vars, m_vars, w_vars>>

\* the call is over; nothing is kept between calls
BreakdownDone ==
    /\ b_pc = "returned"
    /\ b_pc' = "idle"
    /\ cpu' = <<>>
    /\ mem' = <<>>
    /\ name_map' = EmptyMap
    /\ b_req' = None
    /\ rows' = <<>>
    /\ row_keys' = <<>>
    /\ b_served' = <<>>
    /\ UNCHANGED <<a_vars, l_vars, m_vars, w_vars>>

----------------------------------------------------------------------------
(* What the four helpers hand to their callers.  The callers below draw a   *)
(* call's outcome from the helper applied to a response of the service, or  *)
(* from the errors the service's client raises.                             *)

CpuAvgReturns == {get_project_cpu_avg(s) : s \in SeriesResponses(CpuValues)}
MemAvgReturns == {get_project_mem_avg(s) : s \in SeriesResponses(MemValues)}

\* list_running_vms on a listing of one page
ListReturns ==
    {LET result == list_page(<<>>, resp) IN <<Len(result), result>> :
        resp \in PageResponses(1, 1)}

\* get_per_instance_breakdown on one CPU series, no memory series, one page
BreakdownReturns ==
    {LET joined == join(fetch_ts(<<>>, ts), <<>>, name_map_page(EmptyMap, resp))
     IN  [i \in 1..Len(joined) |-> joined[i].row] :
        ts \in TimeSeries(JoinCpuValues), resp \in PageResponses(1, 1)}

\* the errors of the metrics client and of the inventory client
MetricsErrors == {"GoogleAPICallError"}
InventoryErrors == {"HttpError"}
NoError == "none"

Outcomes(returns, errors, default) ==
    {[exc |-> NoError, ret |-> r] : r \in returns}
        \cup {[exc |-> e, ret |-> default] : e \in errors}

\* '%.2f%%' % x if x == x else 'N/A', the number in hundredths
NA == [na |-> TRUE, hundredths |-> 0]
FormatPct(x) == IF x = NaN THEN NA ELSE [na |-> FALSE, hundredths |-> Round2(x)]
FormatCpu(avg) == IF avg = NaN THEN NA ELSE FormatPct(avg * 100)
FormatMem(avg) == FormatPct(avg)

----------------------------------------------------------------------------
(* main.py *)

\* the parsed arguments: --all, --project <id> ("" when not given)
ArgsSet == [all : BOOLEAN, project : {"", "km-prod-eu", "another-project"}]
NoArgs == [all |-> FALSE, project |-> ""]

NoSummary == [project |-> "", cpu |-> NA, mem |-> NA, vms |-> 0, per_instance |-> "none"]

\* the project run_for_project is working on
CurrentProject == IF m_args.all THEN PROJECTS[m_idx] ELSE m_args.project

\* except gax_exceptions.GoogleAPICallError, around the two averages
AvgCatches(exc) == exc = "GoogleAPICallError"
\* except HttpError, around list_running_vms
ListCatches(exc) == exc = "HttpError"

\* a run_for_project without the early return
ReturnsEarlyNever(count) == FALSE

\* if vm_count == 0: return
ReturnsEarly(count) == count = 0

m_Init ==
    /\ m_pc = "idle"
    /\ m_args = NoArgs
    /\ m_idx = 0
    /\ r_pc = "none"
    /\ cpu_avg = NaN
    /\ mem_avg = NaN
    /\ vm_count = 0
    /\ calls = <<>>
    /\ failed = {}
    /\ summary = NoSummary
    /\ invoked = <<>>

\* run_for_project(pid) is entered: its locals are fresh
EnterRun(pid) ==
    /\ r_pc' = "cpu"
    /\ cpu_avg' = NaN
    /\ mem_avg' = NaN
    /\ vm_count' = 0
    /\ calls' = <<>>
    /\ failed' = {}
    /\ invoked' = Append(invoked, pid)

\* main: the arguments are parsed and the mode is chosen
MainParse ==
    /\ m_pc = "idle"
    /\ \E args \in ArgsSet :
          /\ m_args' = args
          /\ IF args.all
             THEN /\ m_pc' = "run"
                  /\ m_idx' = 1
                  /\ EnterRun(PROJECTS[1])
             ELSE IF args.project # ""
             THEN /\ m_pc' = "run"
                  /\ m_idx' = 0
                  /\ EnterRun(args.project)
             ELSE /\ m_pc' = "exit"
                  /\ UNCHANGED <<m_idx, r_pc, cpu_avg, mem_avg, vm_count, calls, failed,
                                 invoked>>
    /\ UNCHANGED summary
    /\ UNCHANGED <<a_vars, l_vars, b_vars, w_vars>>

\* an exception leaves run_for_project and main: the process ends
Crash ==
    /\ m_pc' = "crashed"
    /\ r_pc' = "raised"

\* try: cpu_avg = get_project_cpu_avg(project_id) except ...: cpu_avg = nan
RunCpu ==
    /\ m_pc = "run"
    /\ r_pc = "cpu"
    /\ calls' = Append(calls, "get_project_cpu_avg")
    /\ \E out \in Outcomes(CpuAvgReturns, MetricsErrors, NaN) :
          IF out.exc = NoError
          THEN /\ cpu_avg' = out.ret
               /\ r_pc' = "mem"
               /\ UNCHANGED <<failed, m_pc>>
          ELSE IF AvgCatches(out.exc)
          THEN /\ cpu_avg' = NaN
               /\ failed' = failed \cup {"cpu"}
               /\ r_pc' = "mem"
               /\ UNCHANGED m_pc
          ELSE /\ Crash
               /\ UNCHANGED <<cpu_avg, failed>>
    /\ UNCHANGED <<m_args, m_idx, mem_avg, vm_count, summary, invoked>>
    /\ UNCHANGED <<a_vars, l_vars, b_vars, w_vars>>

\* try: mem_avg = get_project_mem_avg(project_id) except ...: mem_avg = nan
RunMem ==
    /\ m_pc = "run"
    /\ r_pc = "mem"
    /\ calls' = Append(calls, "get_project_mem_avg")
    /\ \E out \in Outcomes(MemAvgReturns, MetricsErrors, NaN) :
          IF out.exc = NoError
          THEN /\ mem_avg' = out.ret
               /\ r_pc' = "list"
               /\ UNCHANGED <<failed, m_pc>>
          ELSE IF AvgCatches(out.exc)
          THEN /\ mem_avg' = NaN
               /\ failed' = failed \cup {"mem"}
               /\ r_pc' = "list"
               /\ UNCHANGED m_pc
          ELSE /\ Crash
               /\ UNCHANGED <<mem_avg, failed>>
    /\ UNCHANGED <<m_args, m_idx, cpu_avg, vm_count, summary, invoked>>
    /\ UNCHANGED <<a_vars, l_vars, b_vars, w_vars>>

\* try: vm_count, vms = list_running_vms(project_id) except HttpError: 0, []
RunList ==
    /\ m_pc = "run"
    /\ r_pc = "list"
    /\ calls' = Append(calls, "list_running_vms")
    /\ \E out \in Outcomes(ListReturns, InventoryErrors, <<0, <<>>>>) :
          IF out.exc = NoError
          THEN /\ vm_count' = out.ret[1]
               /\ r_pc' = "print"
               /\ UNCHANGED <<failed, m_pc>>
          ELSE IF ListCatches(out.exc)
          THEN /\ vm_count' = 0
               /\ failed' = failed \cup {"list"}
               /\ r_pc' = "print"
               /\ UNCHANGED m_pc
          ELSE /\ Crash
               /\ UNCHANGED <<vm_count, failed>>
    /\ UNCHANGED <<m_args, m_idx, cpu_avg, mem_avg, summary, invoked>>
    /\ UNCHANGED <<a_vars, l_vars, b_vars, w_vars>>

\* the summary block is printed; if vm_count == 0: return
RunPrint ==
    /\ m_pc = "run"
    /\ r_pc = "print"
    /\ summary' = [project |-> CurrentProject,
                   cpu |-> FormatCpu(cpu_avg),
                   mem |-> FormatMem(mem_avg),
                   vms |-> vm_count,
                   per_instance |-> "none"]
    /\ r_pc' = IF ReturnsEarly(vm_count) THEN "return" ELSE "breakdown"
    /\ UNCHANGED <<m_pc, m_args, m_idx, cpu_avg, mem_avg, vm_count, calls, failed, invoked>>
    /\ UNCHANGED <<a_vars, l_vars, b_vars, w_vars>>

\* rows = get_per_instance_breakdown(project_id), outside any try; the table
RunBreakdown ==
    /\ m_pc = "run"
    /\ r_pc = "breakdown"
    /\ calls' = Append(calls, "get_per_instance_breakdown")
    /\ \E out \in Outcomes(BreakdownReturns, MetricsErrors \cup InventoryErrors, <<>>) :
          IF out.exc = NoError
          THEN /\ summary' = [summary EXCEPT !.per_instance =
                                 IF Len(out.ret) = 0 THEN "no metrics found" ELSE "table"]
               /\ r_pc' = "return"
               /\ UNCHANGED m_pc
          ELSE /\ Crash
               /\ UNCHANGED summary
    /\ UNCHANGED <<m_args, m_idx, cpu_avg, mem_avg, vm_count, failed, invoked>>
    /\ UNCHANGED <<a_vars, l_vars, b_vars, w_vars>>

\* run_for_project returns: the next project of the list, or the end of main
RunReturn ==
    /\ m_pc = "run"
    /\ r_pc = "return"
    /\ IF m_args.all /\ m_idx < Len(PROJECTS)
       THEN /\ m_idx' = m_idx + 1
            /\ EnterRun(PROJECTS[m_idx + 1])
            /\ UNCHANGED m_pc
       ELSE /\ m_pc' = "exit"
            /\ r_pc' = "none"
            /\ UNCHANGED <<m_idx, cpu_avg, mem_avg, vm_count, calls, failed, invoked>>
    /\ UNCHANGED <<m_args, summary>>
    /\ UNCHANGED <<a_vars, l_vars, b_vars, w_vars>>

----------------------------------------------------------------------------
(* app.py *)

\* request.form: <<>> without a project_id field, <<v>> with the field's value
Forms == {<<>>} \cup {<<v>> : v \in ProjectIds \cup {"", "another-project"}}

\* if project_id: (None and "" are false)
Truthy(form) == Len(form) > 0 /\ form[1] # ""

WebQuery(fn) == Append(w_queries, [fn |-> fn, project |-> w_form[1]])

w_Init ==
    /\ w_pc = "idle"
    /\ w_method = "none"
    /\ w_form = <<>>
    /\ w_cpu_avg = NaN
    /\ w_mem_avg = NaN
    /\ w_vm_count = 0
    /\ w_per_instance = <<>>
    /\ w_queries = <<>>
    /\ w_result = <<>>

\* a request reaches index: project_id = request.form.get("project_id"); result = None.
\* A GET carries no form data.
WebRequest ==
    /\ w_pc = "idle"
    /\ \E method \in {"GET", "POST"}, form \in Forms :
          /\ method = "GET" => form = <<>>
          /\ w_method' = method
          /\ w_form' = form
          /\ w_pc' = IF Truthy(form) THEN "cpu" ELSE "render"
    /\ w_result' = <<>>
    /\ UNCHANGED <<w_cpu_avg, w_mem_avg, w_vm_count, w_per_instance, w_queries>>
    /\ UNCHANGED <<a_vars, l_vars, b_vars, m_vars>>

\* cpu_avg = get_project_cpu_avg(project_id); an error leaves the handler
WebCpu ==
    /\ w_pc = "cpu"
    /\ w_queries' = WebQuery("get_project_cpu_avg")
    /\ \E out \in Outcomes(CpuAvgReturns, MetricsErrors, NaN) :
          /\ w_cpu_avg' = out.ret
          /\ w_pc' = IF out.exc = NoError THEN "mem" ELSE "failed"
    /\ UNCHANGED <<w_method, w_form, w_mem_avg, w_vm_count, w_per_instance, w_result>>
    /\ UNCHANGED <<a_vars, l_vars, b_vars, m_vars>>

\* mem_avg = get_project_mem_avg(project_id)
WebMem ==
    /\ w_pc = "mem"
    /\ w_queries' = WebQuery("get_project_mem_avg")
    /\ \E out \in Outcomes(MemAvgReturns, MetricsErrors, NaN) :
          /\ w_mem_avg' = out.ret
          /\ w_pc' = IF out.exc = NoError THEN "list" ELSE "failed"
    /\ UNCHANGED <<w_method, w_form, w_cpu_avg, w_vm_count, w_per_instance, w_result>>
    /\ UNCHANGED <<a_vars, l_vars, b_vars, m_vars>>

\* vm_count, vms = list_running_vms(project_id)
WebList ==
    /\ w_pc = "list"
    /\ w_queries' = WebQuery("list_running_vms")
    /\ \E out \in Outcomes(ListReturns, InventoryErrors, <<0, <<>>>>) :
          /\ w_vm_count' = out.ret[1]
          /\ w_pc' = IF out.exc = NoError THEN "breakdown" ELSE "failed"
    /\ UNCHANGED <<w_method, w_form, w_cpu_avg, w_mem_avg, w_per_instance, w_result>>
    /\ UNCHANGED <<a_vars, l_vars, b_vars, m_vars>>

\* per_instance = get_per_instance_breakdown(project_id)
WebBreakdown ==
    /\ w_pc = "breakdown"
    /\ w_queries' = WebQuery("get_per_instance_breakdown")
    /\ \E out \in Outcomes(BreakdownReturns, MetricsErrors \cup InventoryErrors, <<>>) :
          /\ w_per_instance' = out.ret
          /\ w_pc' = IF out.exc = NoError THEN "render" ELSE "failed"
    /\ UNCHANGED <<w_method, w_form, w_cpu_avg, w_mem_avg, w_vm_count, w_result>>
    /\ UNCHANGED <<a_vars, l_vars, b_vars, m_vars>>

\* result = {...} when a project was given; render_template(..., result=result)
WebRender ==
    /\ w_pc = "render"
    /\ w_result' = IF Truthy(w_form)
                   THEN <<[project |-> w_form[1],
                           cpu_avg |-> FormatCpu(w_cpu_avg),
                           mem_avg |-> FormatMem(w_mem_avg),
                           vm_count |-> w_vm_count,
                           instances |-> w_per_instance]>>
                   ELSE <<>>
    /\ w_pc' = "responded"
    /\ UNCHANGED <<w_method, w_form, w_cpu_avg, w_mem_avg, w_vm_count, w_per_instance,
                   w_queries>>
    /\ UNCHANGED <<a_vars, l_vars, b_vars, m_vars>>

\* the response is sent (the page, or the failure); the next request finds nothing
WebDone ==
    /\ w_pc \in {"responded", "failed"}
    /\ w_pc' = "idle"
    /\ w_method' = "none"
    /\ w_form' = <<>>
    /\ w_cpu_avg' = NaN
    /\ w_mem_avg' = NaN
    /\ w_vm_count' = 0
    /\ w_per_instance' = <<>>
    /\ w_queries' = <<>>
    /\ w_result' = <<>>
    /\ UNCHANGED <<a_vars, l_vars, b_vars, m_vars>>

----------------------------------------------------------------------------
(* Specifications *)

Init == a_Init /\ l_Init /\ b_Init /\ m_Init /\ w_Init

NextAvg == CallCpuAvg \/ CallMemAvg \/ AvgDone
SpecAvg == Init /\ [][NextAvg]_vars

NextList == ListCall \/ ListExecute \/ ListReturn \/ ListDone
SpecList == Init /\ [][NextList]_vars

NextJoin ==
    \/ BreakdownCall \/ FetchCpuTs \/ FetchCpuEnd \/ FetchMemTs \/ FetchMemEnd
    \/ JoinExecute \/ BreakdownReturn \/ BreakdownDone
SpecJoin == Init /\ [][NextJoin]_vars

NextCli == MainParse \/ RunCpu \/ RunMem \/ RunList \/ RunPrint \/ RunBreakdown \/ RunReturn
SpecCli == Init /\ [][NextCli]_vars

NextWeb == WebRequest \/ WebCpu \/ WebMem \/ WebList \/ WebBreakdown \/ WebRender \/ WebDone
SpecWeb == Init /\ [][NextWeb]_vars

Next == NextAvg \/ NextList \/ NextJoin \/ NextCli \/ NextWeb
Spec == Init /\ [][Next]_vars

----------------------------------------------------------------------------
(* Properties *)

Range(f) == {f[i] : i \in DOMAIN f}

\* the positions of the series that have a point
WithPoints(series) == {i \in 1..Len(series) : Len(series[i]) > 0}
FirstOf(S) == CHOOSE i \in S : \A j \in S : i <= j

\* the instances of a sequence of responses, in the order they were served
RECURSIVE ServedInstances(_, _)
ServedInstances(served, k) ==
    IF k > Len(served) THEN <<>>
    ELSE Instances(served[k]) \o ServedInstances(served, k + 1)

\* list_running_vms's result on a sequence of responses
RECURSIVE RunningListing(_, _, _)
RunningListing(result, served, k) ==
    IF k > Len(served) THEN result
    ELSE RunningListing(list_page(result, served[k]), served, k + 1)

\* no instance id is served twice
DisjointInstances(insts) ==
    \A i, j \in 1..Len(insts) : i # j => insts[i].id # insts[j].id

\* C7: get_project_cpu_avg and get_project_mem_avg each issue one metrics request
\* (for their own metric type) and return the first point of the first series
\* that has a point, in the order served; they return not-a-number exactly when
\* no series is returned or no returned series has a point.
C7_FirstPointOfFirstSeries ==
    a_pc = "returned" =>
        /\ Len(a_requests) = 1
        /\ a_requests[1].metric_type =
               (IF a_fn = "get_project_cpu_avg" THEN CPU_METRIC ELSE MEM_METRIC)
        /\ (a_ret = NaN) <=> (WithPoints(a_series) = {})
        /\ WithPoints(a_series) # {} => a_ret = a_series[FirstOf(WithPoints(a_series))][1]

\* a CPU call whose first series is empty and whose next two series start with
\* different values
C7_Witness ==
    /\ a_pc = "returned"
    /\ a_fn = "get_project_cpu_avg"
    /\ Len(a_series) = 3
    /\ Len(a_series[1]) = 0
    /\ Len(a_series[2]) > 0
    /\ Len(a_series[3]) > 0
    /\ a_series[2][1] # a_series[3][1]
    /\ a_ret = a_series[2][1]

\* C2: list_running_vms requests every page once (page 1, then the page each
\* continuation token names, until a page has none); the count it returns is the
\* length of the list; and when the pages' instances are pairwise disjoint, every
\* RUNNING instance is returned exactly once and no instance of another status.
C2_EveryRunningInstanceOnce ==
    l_pc = "returned" =>
        LET insts == ServedInstances(l_served, 1)
            list == l_ret[2]
        IN  /\ Len(l_served) >= 1
            /\ l_requested = [i \in 1..Len(l_served) |-> i]
            /\ \A i \in 1..Len(l_served) :
                   (l_served[i].nextPageToken = 0) <=> (i = Len(l_served))
            /\ l_ret[1] = Len(list)
            /\ \A j \in 1..Len(list) :
                   \E k \in 1..Len(insts) :
                       insts[k].status = "RUNNING" /\ list[j] = vm_record(insts[k])
            /\ DisjointInstances(insts) =>
                   \A k \in 1..Len(insts) :
                       Cardinality({j \in 1..Len(list) : list[j].id = insts[k].id})
                           = (IF insts[k].status = "RUNNING" THEN 1 ELSE 0)

\* three pages with disjoint instances: a RUNNING instance on the first, none on
\* the second, an instance of another status on the third
C2_Witness ==
    /\ l_pc = "returned"
    /\ Len(l_served) = 3
    /\ DisjointInstances(ServedInstances(l_served, 1))
    /\ Len(Instances(l_served[1])) = 1
    /\ Instances(l_served[1])[1].status = "RUNNING"
    /\ Len(Instances(l_served[2])) = 0
    /\ Len(Instances(l_served[3])) = 1
    /\ Instances(l_served[3])[1].status = "TERMINATED"
    /\ l_ret[1] = 1

\* C3: every row of get_per_instance_breakdown comes from an instance id that is
\* a key of the VM record map built in the same call, and shows that entry's
\* name, zone and machine type; a CPU series whose id is not in the map yields no row.
C3_RowsOnlyForMappedIds ==
    b_pc = "returned" =>
        /\ Len(rows) = Len(row_keys)
        /\ \A i \in 1..Len(rows) :
               LET id == row_keys[i][1]
               IN  /\ id \in DOMAIN name_map
                   /\ rows[i].instance = name_map[id].name
                   /\ rows[i].zone = name_map[id].zone
                   /\ rows[i].machineType = name_map[id].machineType
        /\ \A k \in DictKeys(cpu) : k[1] \notin DOMAIN name_map => k \notin Range(row_keys)

\* an orphaned CPU series beside a row whose series carries another zone label
\* than the VM record's zone
C3_Witness ==
    /\ b_pc = "returned"
    /\ \E k \in DictKeys(cpu) : k[1] \notin DOMAIN name_map
    /\ \E i \in 1..Len(rows) : rows[i].zone # row_keys[i][2]

\* C8: rows come only from (id, zone) keys of the CPU map; a key with a memory
\* sample and no CPU sample yields no row; a key with a CPU sample, a VM record
\* for its id and no memory sample under the same key yields a row whose memory
\* value is not-a-number.
C8_RowsFollowCpuMap ==
    b_pc = "returned" =>
        /\ \A i \in 1..Len(row_keys) : row_keys[i] \in DictKeys(cpu)
        /\ \A k \in DictKeys(mem) \ DictKeys(cpu) : k \notin Range(row_keys)
        /\ \A k \in DictKeys(cpu) :
               (k[1] \in DOMAIN name_map /\ k \notin DictKeys(mem)) =>
                   \E i \in 1..Len(rows) :
                       row_keys[i] = k /\ rows[i].memory_used_pct = NaN
        /\ \A i \in 1..Len(rows) :
               row_keys[i] \in DictKeys(mem) => rows[i].memory_used_pct # NaN

\* a mapped instance with a memory sample and no CPU sample, beside a row
\* without a memory sample
C8_Witness ==
    /\ b_pc = "returned"
    /\ \E k \in DictKeys(mem) \ DictKeys(cpu) : k[1] \in DOMAIN name_map
    /\ \E i \in 1..Len(rows) : rows[i].memory_used_pct = NaN

\* C9 as stated: no two rows of one result come from the same instance id.
C9_OneRowPerInstance ==
    b_pc = "returned" =>
        \A i, j \in 1..Len(row_keys) : i # j => row_keys[i][1] # row_keys[j][1]

\* C9, amended: no two rows of one result come from the same (instance id, zone
\* label) key, so an instance has at most one row per zone label its CPU series
\* carry; several series with the same labels yield one row.
C9_OneRowPerKey ==
    b_pc = "returned" =>
        /\ \A i, j \in 1..Len(row_keys) : i # j => row_keys[i] # row_keys[j]
        /\ \A id \in InstIds :
               Cardinality({i \in 1..Len(row_keys) : row_keys[i][1] = id})
                   <= Cardinality({k \in DictKeys(cpu) : k[1] = id})

\* two rows for one instance, from series under two zone labels
C9_Witness ==
    /\ b_pc = "returned"
    /\ \E i, j \in 1..Len(row_keys) :
           i # j /\ row_keys[i][1] = row_keys[j][1] /\ row_keys[i][2] # row_keys[j][2]

\* C4 as stated (the joiner's part): when the listing read by the call holds no
\* RUNNING instance, get_per_instance_breakdown returns an empty list.
C4_NoRunningNoRows ==
    b_pc = "returned" =>
        (RunningListing(<<>>, b_served, 1) = <<>> => rows = <<>>)

\* C5 as stated: every row of get_per_instance_breakdown describes a VM that is
\* RUNNING in the listing fetched by that call, that is, one that
\* list_running_vms returns for the same responses.
C5_RowsOnlyForRunning ==
    b_pc = "returned" =>
        LET running == {r.id : r \in Range(RunningListing(<<>>, b_served, 1))}
        IN  \A i \in 1..Len(row_keys) : row_keys[i][1] \in running

\* C1 as stated: in batch mode no upstream error leaves run_for_project, a
\* project whose metrics queries failed is reported with N/A, and main ends
\* having invoked run_for_project for every project of the list.
C1_BatchSurvivesErrors ==
    m_args.all =>
        /\ m_pc # "crashed"
        /\ (r_pc \in {"breakdown", "return"} /\ "cpu" \in failed) => summary.cpu = NA
        /\ (r_pc \in {"breakdown", "return"} /\ "mem" \in failed) => summary.mem = NA
        /\ m_pc = "exit" => invoked = PROJECTS

\* C10: run_for_project calls the helpers in the order CPU average, memory
\* average, VM listing, per-instance breakdown, and the breakdown only after the
\* listing returned a count above zero: after a failed listing or a count of
\* zero it returns without a per-instance query.
C10_BreakdownOnlyWithRunningVms ==
    LET order == <<"get_project_cpu_avg", "get_project_mem_avg", "list_running_vms",
                   "get_per_instance_breakdown">>
    IN  /\ Len(calls) <= 4
        /\ \A i \in 1..Len(calls) : calls[i] = order[i]
        /\ (r_pc = "breakdown" \/ Len(calls) = 4) => (vm_count > 0 /\ "list" \notin failed)
        /\ (r_pc = "return" /\ (vm_count = 0 \/ "list" \in failed)) => Len(calls) = 3

\* a run that returned after a failed listing, without a per-instance query
C10_Witness ==
    /\ r_pc = "return"
    /\ "list" \in failed
    /\ calls = <<"get_project_cpu_avg", "get_project_mem_avg", "list_running_vms">>

\* C6 as stated: index issues upstream queries only for a project id of the
\* PROJECTS list, and none for a GET or for a POST without a project id.
C6_QueriesOnlyForListedProjects ==
    /\ \A i \in 1..Len(w_queries) : w_queries[i].project \in ProjectIds
    /\ (w_pc # "idle" /\ ~Truthy(w_form)) => (w_queries = <<>> /\ w_result = <<>>)

====
